---- MODULE Spec2Model ----
(***************************************************************************)
(* LabelWatch: the filter pipeline (scrapers/dailymed.py apply_filters),   *)
(* the version resolver and change-summary builder (get_previous_version,  *)
(* get_label_changes, with parse_spl_sections and the diff parser), the    *)
(* cross validator (scrapers/openfda.py cross_validate_dailymed_vs_fda)    *)
(* and the report handler of dashboard.py.                                 *)
(*                                                                         *)
(* Python values are represented as follows.                               *)
(*   Optional value : None is <<>>, a present value x is <<x>>.            *)
(*   str            : a sequence of one-character strings (literal pieces  *)
(*                    of a format string are kept as one element).         *)
(*   date           : the ordinal of the day (an integer).                 *)
(*   list           : a sequence;  set : a set;  dict : a function.        *)
(***************************************************************************)
EXTENDS Integers, Sequences, FiniteSets, TLC

VARIABLES
    op,                 \* the function under execution
    pc,                 \* its position: "call", ..., "return"
    \* apply_filters: arguments, collaborator response, locals, return value
    matches, date_start, date_end, drug_class_code, drug_class_setids,
    keyword, manufacturer, change_texts,
    class_pages,        \* pages spls.json serves for the drug class
    allowed, result, texts,
    \* cross_validate_dailymed_vs_fda: arguments and return value
    dailymed_date, fda_info, status_message, lag_days,
    \* get_label_changes: argument, collaborator calls made so far, locals
    \* (data is the local of get_previous_version), return value
    current_version, calls, data, prev_version, current_xml,
    current_sections, old_sections, summary,
    \* _parse_unified_diff_to_added_removed: arguments and return value
    old_lines, new_lines, added, removed,
    \* dashboard: st.session_state, and the outcome of each "Generate
    \* report" attempt so far (history, not program state)
    session_state, attempts

filter_vars == <<matches, date_start, date_end, drug_class_code,
                 drug_class_setids, keyword, manufacturer, change_texts,
                 class_pages, allowed, result, texts>>

validate_vars == <<dailymed_date, fda_info, status_message, lag_days>>

changes_vars == <<current_version, calls, data, prev_version, current_xml,
                  current_sections, old_sections, summary>>

diff_vars == <<old_lines, new_lines, added, removed>>

session_vars == <<session_state, attempts>>

vars == <<op, pc, filter_vars, validate_vars, changes_vars, diff_vars,
          session_vars>>

----------------------------------------------------------------------------
(* Python values *)

None == <<>>
Some(x) == <<x>>
IsNone(o) == o = <<>>
Val(o) == o[1]

Min(a, b) == IF a <= b THEN a ELSE b

Range(s) == {s[i] : i \in 1..Len(s)}

\* s[:n]
Prefix(s, n) == SubSeq(s, 1, Min(n, Len(s)))

\* the sequences over S of length at most n
SeqUpTo(S, n) == UNION {[1..k -> S] : k \in 0..n}

Whitespace == {" ", "\n", "\t"}

\* str.lower() of one character
LowerChar(c) == CASE c = "A" -> "a" [] c = "B" -> "b" [] OTHER -> c

\* str.lower()
Lower(s) == [i \in 1..Len(s) |-> LowerChar(s[i])]

RECURSIVE LStrip(_)
LStrip(s) ==
    IF s /= <<>> /\ Head(s) \in Whitespace THEN LStrip(Tail(s)) ELSE s

RECURSIVE RStrip(_)
RStrip(s) ==
    IF s /= <<>> /\ s[Len(s)] \in Whitespace
    THEN RStrip(SubSeq(s, 1, Len(s) - 1)) ELSE s

\* str.strip()
Strip(s) == RStrip(LStrip(s))

\* sub in s
Contains(sub, s) ==
    \E i \in 0..(Len(s) - Len(sub)) : SubSeq(s, i + 1, i + Len(sub)) = sub

\* the elements of s at the positions where keep holds, in order
RECURSIVE Pick(_, _)
Pick(s, keep) ==
    IF s = <<>> THEN <<>>
    ELSE (IF Head(keep) THEN <<Head(s)>> ELSE <<>>) \o Pick(Tail(s), Tail(keep))

----------------------------------------------------------------------------
(* the variables of a function that is not under execution *)

IdleFilters ==
    /\ matches = <<>> /\ date_start = None /\ date_end = None
    /\ drug_class_code = None /\ drug_class_setids = None
    /\ keyword = None /\ manufacturer = None /\ change_texts = None
    /\ class_pages = <<>> /\ allowed = None /\ result = <<>> /\ texts = None

IdleValidate ==
    /\ dailymed_date = None /\ fda_info = None
    /\ status_message = <<>> /\ lag_days = None

\* the empty dict
EmptyDict == [n \in {} |-> <<>>]

IdleChanges ==
    /\ current_version = 0 /\ calls = <<>> /\ data = None
    /\ prev_version = None /\ current_xml = None
    /\ current_sections = EmptyDict /\ old_sections = EmptyDict
    /\ summary = <<>>

IdleDiff ==
    /\ old_lines = <<>> /\ new_lines = <<>>
    /\ added = <<>> /\ removed = <<>>

IdleSession == session_state = EmptyDict /\ attempts = <<>>

----------------------------------------------------------------------------
(* parse_label_date *)

\* A date string is "" or [body, day, tz]: text laid out as `body` that
\* names the day `day`, followed by the suffix `tz`.
EmptyStr == [body |-> "", day |-> 0, tz |-> ""]

\* the layouts strptime is tried with, and one it is not
DateFormats == {"%a, %d %b %Y %H:%M:%S", "%Y-%m-%d", "%b %d, %Y", "%d %b %Y"}

StrippedZones == {" EST", " EDT", " UTC", " PST", " PDT"}

parse_label_date(date_str) ==
    IF date_str = EmptyStr THEN None
    ELSE LET tz == IF date_str.tz \in StrippedZones THEN "" ELSE date_str.tz
         IN  IF date_str.body \in DateFormats /\ tz = ""
             THEN Some(date_str.day)
             ELSE None

----------------------------------------------------------------------------
(* fetch_spl_setids_for_drug_class *)

max_pages == 50

\* What spls.json answers for one page: the request fails, or it carries
\* the setid of each item ("" for an item without one) and next_page.
ErrorPage == [error |-> TRUE, items |-> {}, next_page |-> "null"]
DataPage(items, next) == [error |-> FALSE, items |-> items, next_page |-> next]

\* the while loop from `page`, with `setids` collected so far; a page past
\* the last one the service holds carries no items
RECURSIVE fetch_pages(_, _, _)
fetch_pages(pages, page, setids) ==
    IF page > max_pages \/ page > Len(pages) THEN setids
    ELSE LET r == pages[page]
             found == setids \cup {sid \in r.items : sid /= ""}
         IN  IF r.error \/ r.items = {} THEN setids
             ELSE IF r.next_page = "null" THEN found
             ELSE fetch_pages(pages, page + 1, found)

fetch_spl_setids_for_drug_class(code, pages) ==
    IF code = "" THEN {} ELSE fetch_pages(pages, 1, {})

----------------------------------------------------------------------------
(* apply_filters *)

\* truth value of `texts` (None and the empty list are false)
ListTruthy(o) == ~IsNone(o) /\ Val(o) /= <<>>

\* truth value of an optional string
StrTruthy(o) == ~IsNone(o) /\ Val(o) /= ""

\* lines 204-207 as a slip that slices [-len(result):] would have them: the
\* last entries are kept
paired_texts_last(m, ct) ==
    IF IsNone(ct) \/ Len(Val(ct)) = Len(m) THEN ct
    ELSE LET padded == Val(ct) \o [i \in 1..Len(m) |-> <<>>]
         IN  Some(SubSeq(padded, Len(padded) - Len(m) + 1, Len(padded)))

\* lines 204-207: the copies, the texts padded or cut to one per record
paired_texts(m, ct) ==
    IF IsNone(ct) \/ Len(Val(ct)) = Len(m) THEN ct
    ELSE Some(Prefix(Val(ct) \o [i \in 1..Len(m) |-> <<>>], Len(m)))

\* one filtering loop: `filtered` and `filtered_texts` from the records kept
filter_loop(st, keep) ==
    [result |-> Pick(st.result, keep),
     texts  |-> IF ListTruthy(st.texts)
                THEN Some(Pick(Val(st.texts), keep))
                ELSE None]

\* lines 213-225: is record u kept by the date range
date_keeps(u, ds, de) ==
    LET d == parse_label_date(IF u.updated_date /= EmptyStr
                              THEN u.updated_date ELSE u.pub_date)
    IN  IF IsNone(d) THEN TRUE
        ELSE IF ~IsNone(ds) /\ Val(d) < Val(ds) THEN FALSE
        ELSE IF ~IsNone(de) /\ Val(d) > Val(de) THEN FALSE
        ELSE TRUE

\* lines 209-227
date_stage(st, ds, de) ==
    IF ~IsNone(ds) \/ ~IsNone(de)
    THEN filter_loop(st, [i \in 1..Len(st.result) |->
                              date_keeps(st.result[i], ds, de)])
    ELSE st

\* lines 230-232: the identifier set of the class stage
class_allowed(code, setids, pages) ==
    LET given == IF ~IsNone(setids) THEN Val(setids) ELSE {}
    IN  IF StrTruthy(code) /\ given = {}
        THEN fetch_spl_setids_for_drug_class(Val(code), pages)
        ELSE given

\* lines 229-242
class_stage(st, code, setids, pages) ==
    IF StrTruthy(code) \/ ~IsNone(setids)
    THEN LET a == class_allowed(code, setids, pages)
         IN  IF a /= {}
             THEN filter_loop(st, [i \in 1..Len(st.result) |->
                                       st.result[i].setid \in a])
             ELSE st
    ELSE st

\* (x or "").strip().lower()
normalized(o) == Lower(Strip(IF IsNone(o) THEN <<>> ELSE Val(o)))

\* lines 244-254
keyword_stage(st, kw) ==
    LET k == normalized(kw)
    IN  IF k /= <<>>
        THEN filter_loop(st, [i \in 1..Len(st.result) |->
                                  Contains(k, Lower(st.result[i].title))])
        ELSE st

\* lines 256-267
manufacturer_stage(st, mf) ==
    LET k == normalized(mf)
    IN  IF k /= <<>>
        THEN filter_loop(st, [i \in 1..Len(st.result) |->
                                  Contains(k, Lower(st.result[i].title))])
        ELSE st

\* the call as a whole: [result, texts] as returned
apply_filters(m, ds, de, code, setids, kw, mf, ct, pages) ==
    manufacturer_stage(
        keyword_stage(
            class_stage(
                date_stage([result |-> m, texts |-> paired_texts(m, ct)],
                           ds, de),
                code, setids, pages),
            kw),
        mf)

----------------------------------------------------------------------------
(* apply_filters: inputs of the model *)

MaxLen == 2

Iso(d) == [body |-> "%Y-%m-%d", day |-> d, tz |-> ""]
Rfc(d, tz) == [body |-> "%a, %d %b %Y %H:%M:%S", day |-> d, tz |-> tz]
Garbage == [body |-> "garbage", day |-> 0, tz |-> ""]

\* the fields apply_filters reads (link and version are not read)
LabelUpdate(t, s, u, p) ==
    [title |-> t, setid |-> s, updated_date |-> u, pub_date |-> p]

Records ==
    { LabelUpdate(<<"A">>, "s1", Iso(1), EmptyStr),
      LabelUpdate(<<"b">>, "s2", EmptyStr, Rfc(2, " EST")),
      LabelUpdate(<<"a", " ", "B">>, "s1", Garbage, Iso(1)),
      LabelUpdate(<<"B">>, "s2", Rfc(2, " GMT"), EmptyStr) }

DateBounds == {None, Some(1), Some(2)}
ClassCodes == {None, Some(""), Some("N0000000001")}
ClassSetids == {None, Some({}), Some({"s1"})}
Keywords == {None, Some(<<" ">>), Some(<<" ", "A">>)}
Manufacturers == {None, Some(<<"b">>)}
ClassPages ==
    { <<>>,
      <<ErrorPage>>,
      <<DataPage({"s2", ""}, "2"), ErrorPage>> }

\* change_texts: absent, or the first k of distinct texts
TextOf(i) == <<"t", ToString(i)>>
ChangeTexts == {None} \cup {Some([i \in 1..k |-> TextOf(i)]) : k \in 0..MaxLen}

InitFilters ==
    /\ op = "apply_filters"
    /\ pc = "call"
    /\ matches \in SeqUpTo(Records, MaxLen)
    /\ date_start \in DateBounds
    /\ date_end \in DateBounds
    /\ drug_class_code \in ClassCodes
    /\ drug_class_setids \in ClassSetids
    /\ keyword \in Keywords
    /\ manufacturer \in Manufacturers
    /\ change_texts \in ChangeTexts
    /\ class_pages = <<>>
    /\ allowed = None
    /\ result = <<>>
    /\ texts = None
    /\ IdleValidate
    /\ IdleChanges
    /\ IdleDiff
    /\ IdleSession

\* the class stage asks the service only for a class code without a
\* non-empty identifier set
ClassFetched ==
    StrTruthy(drug_class_code)
    /\ (IsNone(drug_class_setids) \/ Val(drug_class_setids) = {})

ApplyFilters ==
    /\ op = "apply_filters"
    /\ pc = "call"
    /\ \E pages \in (IF ClassFetched THEN ClassPages ELSE {<<>>}) :
         LET r == apply_filters(matches, date_start, date_end,
                                drug_class_code, drug_class_setids,
                                keyword, manufacturer, change_texts, pages)
         IN  /\ class_pages' = pages
             /\ allowed' = IF StrTruthy(drug_class_code)
                              \/ ~IsNone(drug_class_setids)
                           THEN Some(class_allowed(drug_class_code,
                                                   drug_class_setids, pages))
                           ELSE None
             /\ result' = r.result
             /\ texts' = r.texts
    /\ pc' = "return"
    /\ UNCHANGED <<op, matches, date_start, date_end, drug_class_code,
                   drug_class_setids, keyword, manufacturer, change_texts,
                   validate_vars, changes_vars, diff_vars, session_vars>>

NextFilters == ApplyFilters

SpecFilters == InitFilters /\ [][NextFilters]_vars

----------------------------------------------------------------------------
(* apply_filters: properties *)

Returned == op = "apply_filters" /\ pc = "return"

TextsGiven == ~IsNone(change_texts)

EqualLengths == TextsGiven /\ Len(Val(change_texts)) = Len(matches)

DatePresent == ~IsNone(date_start) \/ ~IsNone(date_end)
ClassPresent == StrTruthy(drug_class_code) \/ ~IsNone(drug_class_setids)
KeywordPresent == normalized(keyword) /= <<>>
ManufacturerPresent == normalized(manufacturer) /= <<>>

\* C1: with change_texts a list as long as matches, the second component
\* returned is a list as long as the returned records, and returned text j
\* is the text the input paired with returned record j (some choice of
\* kept positions yields both returned lists).
C1_TextsStayPaired ==
    (Returned /\ EqualLengths) =>
        /\ ~IsNone(texts)
        /\ \E keep \in [1..Len(matches) -> BOOLEAN] :
             /\ result = Pick(matches, keep)
             /\ Val(texts) = Pick(Val(change_texts), keep)

\* the date a record is filtered by
LabelDate(u) ==
    parse_label_date(IF u.updated_date /= EmptyStr
                     THEN u.updated_date ELSE u.pub_date)

InDateRange(d) ==
    /\ IsNone(date_start) \/ Val(date_start) <= d
    /\ IsNone(date_end) \/ d <= Val(date_end)

AfterDateStage ==
    date_stage([result |-> matches,
                texts |-> paired_texts(matches, change_texts)],
               date_start, date_end).result

\* C6, the date stage alone: an unparseable date is always retained, a
\* parsed date if and only if it lies within the bounds that are present
DateStageRetains ==
    Returned =>
        AfterDateStage =
            Pick(matches, [i \in 1..Len(matches) |->
                    \/ IsNone(LabelDate(matches[i]))
                    \/ InDateRange(Val(LabelDate(matches[i])))])

\* a record satisfies every later criterion that is present
SatisfiesLaterStages(u) ==
    /\ ClassPresent => u.setid \in Val(allowed)
    /\ KeywordPresent => Contains(normalized(keyword), Lower(u.title))
    /\ ManufacturerPresent => Contains(normalized(manufacturer), Lower(u.title))

\* C6: the date stage retains exactly the records with an unparseable date
\* or a date within the present bounds (both inclusive), and a retained
\* record with an unparseable date is still dropped by a later keyword,
\* manufacturer or class stage it does not satisfy.
C6_UnparseableDatesOptOut ==
    /\ DateStageRetains
    /\ (Returned /\ DatePresent) =>
          \A j \in 1..Len(result) :
              IsNone(LabelDate(result[j])) => SatisfiesLaterStages(result[j])

\* C8: with a class criterion present every returned record has its setid
\* in the identifier set supplied or resolved for the class; none is
\* returned when that set is empty.
C8_ClassMembersOnly ==
    (Returned /\ ClassPresent) =>
        \A j \in 1..Len(result) : result[j].setid \in Val(allowed)

\* a call with one criterion alone ("date", "class", "keyword",
\* "manufacturer") on records m paired with texts ct
ApplyOne(c, m, ct) ==
    apply_filters(m,
                  IF c = "date" THEN date_start ELSE None,
                  IF c = "date" THEN date_end ELSE None,
                  IF c = "class" THEN drug_class_code ELSE None,
                  IF c = "class" THEN drug_class_setids ELSE None,
                  IF c = "keyword" THEN keyword ELSE None,
                  IF c = "manufacturer" THEN manufacturer ELSE None,
                  ct, class_pages)

Criteria == {"date", "class", "keyword", "manufacturer"}

\* the criteria applied one call at a time, in the order given
RECURSIVE ApplyInOrder(_, _, _)
ApplyInOrder(order, m, ct) ==
    IF order = <<>> THEN [result |-> m, texts |-> ct]
    ELSE LET r == ApplyOne(Head(order), m, ct)
         IN  ApplyInOrder(Tail(order), r.result, r.texts)

Orders == {o \in [1..4 -> Criteria] : Range(o) = Criteria}

\* the positions kept by every single-criterion call
KeptByAll ==
    [i \in 1..Len(matches) |->
        \A c \in Criteria :
            matches[i] \in Range(ApplyOne(c, matches, None).result)]

\* the pairs kept by every single-criterion call
Intersection ==
    [result |-> Pick(matches, KeptByAll),
     texts  |-> Some(Pick(Val(change_texts), KeptByAll))]

\* C7: the stages are independent and commute: the (records, texts) result
\* of one call with all criteria is the intersection of the results of each
\* criterion alone, and is the result of applying the criteria one call at
\* a time in any order.
C7_StagesCommute ==
    (Returned /\ EqualLengths) =>
        /\ [result |-> result, texts |-> texts] = Intersection
        /\ \A o \in Orders :
             ApplyInOrder(o, matches, change_texts)
                 = [result |-> result, texts |-> texts]

\* the records alone do commute and intersect
RecordsCommute ==
    Returned =>
        /\ result = Pick(matches, KeptByAll)
        /\ \A o \in Orders :
             ApplyInOrder(o, matches, change_texts).result = result

----------------------------------------------------------------------------
(* cross_validate_dailymed_vs_fda *)

\* date.isoformat(), str(int): the text of a number.  The dash of the
\* source's messages is written "-" below.
isoformat(d) == ToString(d)

FDALabelInfo(sid, eff, raw, found) ==
    [set_id |-> sid, effective_date |-> eff, effective_time_raw |-> raw,
     found |-> found]

\* line 104, as a plausible slip would have it: the operands exchanged
lag_between_reversed(dm, fda_d) == fda_d - dm

\* line 104: (dailymed_date - fda_d).days
lag_between(dm, fda_d) == dm - fda_d

\* lines 104-109: both dates present
lag_report(dm, fda_d) ==
    LET lag == lag_between(dm, fda_d)
    IN  IF lag = 0
        THEN [message |-> <<"FDA (openFDA): in sync - effective ",
                            isoformat(fda_d)>>,
              lag |-> Some(0)]
        ELSE IF lag > 0
        THEN [message |-> <<"FDA (openFDA): DailyMed ", ToString(lag),
                            " day(s) ahead - FDA effective ",
                            isoformat(fda_d)>>,
              lag |-> Some(lag)]
        ELSE [message |-> <<"FDA (openFDA): FDA ", ToString(-lag),
                            " day(s) ahead - FDA effective ",
                            isoformat(fda_d)>>,
              lag |-> Some(lag)]

NotQueried == [message |-> <<"FDA (openFDA): not queried">>, lag |-> None]

NoRecord ==
    [message |-> <<"FDA (openFDA): no record found for this set ID">>,
     lag |-> None]

NotParsed(raw) ==
    [message |-> <<"FDA (openFDA): effective date not parsed (raw: ", raw, ")">>,
     lag |-> None]

FdaDateOnly(fda_d) ==
    [message |-> <<"FDA effective date: ", isoformat(fda_d),
                   " (DailyMed date unknown)">>,
     lag |-> None]

\* the function with the tests of lines 97 and 100 exchanged
cross_validate_date_before_found(dm, fda) ==
    IF IsNone(fda) THEN NotQueried
    ELSE IF IsNone(Val(fda).effective_date)
    THEN NotParsed(Val(fda).effective_time_raw)
    ELSE IF ~Val(fda).found THEN NoRecord
    ELSE IF IsNone(dm) THEN FdaDateOnly(Val(Val(fda).effective_date))
    ELSE lag_report(Val(dm), Val(Val(fda).effective_date))

\* [message, lag] as returned; fda is None or an FDALabelInfo
cross_validate_dailymed_vs_fda(dm, fda) ==
    IF IsNone(fda) THEN NotQueried
    ELSE IF ~Val(fda).found THEN NoRecord
    ELSE IF IsNone(Val(fda).effective_date)
    THEN NotParsed(Val(fda).effective_time_raw)
    ELSE IF IsNone(dm) THEN FdaDateOnly(Val(Val(fda).effective_date))
    ELSE lag_report(Val(dm), Val(Val(fda).effective_date))

\* inputs of the model: every combination of the fields
MaxOrdinal == 3

Dates == {None} \cup {Some(d) : d \in 1..MaxOrdinal}
RawTimes == {"", "2021", "20210902"}
FdaInfos ==
    {None} \cup {Some(FDALabelInfo("s1", eff, raw, found)) :
                    eff \in Dates, raw \in RawTimes, found \in BOOLEAN}

InitValidate ==
    /\ op = "cross_validate_dailymed_vs_fda"
    /\ pc = "call"
    /\ dailymed_date \in Dates
    /\ fda_info \in FdaInfos
    /\ status_message = <<>>
    /\ lag_days = None
    /\ IdleFilters
    /\ IdleChanges
    /\ IdleDiff
    /\ IdleSession

CrossValidate ==
    /\ op = "cross_validate_dailymed_vs_fda"
    /\ pc = "call"
    /\ LET r == cross_validate_dailymed_vs_fda(dailymed_date, fda_info)
       IN  /\ status_message' = r.message
           /\ lag_days' = r.lag
    /\ pc' = "return"
    /\ UNCHANGED <<op, dailymed_date, fda_info, filter_vars, changes_vars,
                   diff_vars, session_vars>>

NextValidate == CrossValidate

SpecValidate == InitValidate /\ [][NextValidate]_vars

Validated == op = "cross_validate_dailymed_vs_fda" /\ pc = "return"

\* the five cases of the contract, by the inputs alone
Case1 == IsNone(fda_info)
Case2 == ~Case1 /\ ~Val(fda_info).found
Case3 == ~Case1 /\ Val(fda_info).found /\ IsNone(Val(fda_info).effective_date)
Case4 == ~Case1 /\ Val(fda_info).found /\ ~IsNone(Val(fda_info).effective_date)
         /\ IsNone(dailymed_date)
Case5 == ~Case1 /\ Val(fda_info).found /\ ~IsNone(Val(fda_info).effective_date)
         /\ ~IsNone(dailymed_date)

\* C4: the outcome is decided by the first matching case in the fixed
\* order: not queried; no record found (even with an effective date set);
\* date not parsed, with the raw value in the message; FDA date only;
\* otherwise the lag.  The lag is None in cases 1 to 4 and an integer
\* exactly in case 5.
C4_PriorityOrder ==
    Validated =>
        /\ Case1 => status_message = <<"FDA (openFDA): not queried">>
        /\ Case2 => status_message =
                        <<"FDA (openFDA): no record found for this set ID">>
        /\ Case3 => /\ status_message[1] =
                           "FDA (openFDA): effective date not parsed (raw: "
                    /\ status_message[2] = Val(fda_info).effective_time_raw
        /\ Case4 => /\ status_message[1] = "FDA effective date: "
                    /\ status_message[2] =
                           isoformat(Val(Val(fda_info).effective_date))
                    /\ Len(status_message) = 3
        /\ (Case1 \/ Case2 \/ Case3 \/ Case4) => IsNone(lag_days)
        /\ Case5 <=> ~IsNone(lag_days)

\* a call decided by "no record found" although an effective date is set
C4_Witness ==
    /\ Validated /\ Case2
    /\ ~IsNone(Val(fda_info).effective_date)
    /\ ~IsNone(dailymed_date)
    /\ IsNone(lag_days)

\* C5: with both dates present the lag is the DailyMed date minus the FDA
\* effective date in days: 0 reads "in sync", a positive lag reads DailyMed
\* lag day(s) ahead, a negative lag reads FDA -lag day(s) ahead (the count
\* printed is positive, the returned lag negative); swapping the two dates
\* negates the returned lag.
C5_SignedLag ==
    (Validated /\ Case5) =>
        LET dm == Val(dailymed_date)
            fd == Val(Val(fda_info).effective_date)
            swapped == cross_validate_dailymed_vs_fda(
                           Some(fd),
                           Some(FDALabelInfo("s1", Some(dm), "", TRUE)))
        IN  /\ lag_days = Some(dm - fd)
            /\ dm = fd => status_message[1] = "FDA (openFDA): in sync - effective "
            /\ dm > fd => /\ status_message[1] = "FDA (openFDA): DailyMed "
                          /\ status_message[2] = ToString(dm - fd)
            /\ dm < fd => /\ status_message[1] = "FDA (openFDA): FDA "
                          /\ status_message[2] = ToString(fd - dm)
                          /\ Val(lag_days) < 0
            /\ swapped.lag = Some(-Val(lag_days))

\* a call where the FDA date is the later one
C5_Witness ==
    /\ Validated /\ Case5
    /\ Val(dailymed_date) < Val(Val(fda_info).effective_date)
    /\ Val(lag_days) < 0
    /\ status_message[1] = "FDA (openFDA): FDA "

----------------------------------------------------------------------------
(* fetch_spl_history, get_previous_version *)

MaxVer == 3
MaxHist == 3

\* A history record is a dict: `has` tells whether it has the key
\* "spl_version", `text` is the value as written in the JSON.
HistoryRecord(has, text) == [has |-> has, text |-> text]

\* int(x): defined when x is written as a number
IsIntText(x) == \E n \in 0..(MaxVer + 1) : ToString(n) = x
int(x) == CHOOSE n \in 0..(MaxVer + 1) : ToString(n) = x

\* What fetch_spl_history returns: None (the request failed), or the JSON:
\* {} , {"data": null} or {"data": {"history": [...]}}
Payload(hasData, history) == [hasData |-> hasData, history |-> history]

\* the list with x inserted into an ascending list
RECURSIVE InsertAscending(_, _)
InsertAscending(x, s) ==
    IF s = <<>> THEN <<x>>
    ELSE IF x <= Head(s) THEN <<x>> \o s
    ELSE <<Head(s)>> \o InsertAscending(x, Tail(s))

\* sorted(vs), as a slip that omits reverse=True would have it
RECURSIVE sorted_ascending(_)
sorted_ascending(vs) ==
    IF vs = <<>> THEN <<>>
    ELSE InsertAscending(Head(vs), sorted_ascending(Tail(vs)))

\* the list with x inserted into a descending list
RECURSIVE InsertDescending(_, _)
InsertDescending(x, s) ==
    IF s = <<>> THEN <<x>>
    ELSE IF x >= Head(s) THEN <<x>> \o s
    ELSE <<Head(s)>> \o InsertDescending(x, Tail(s))

\* sorted(vs, reverse=True)
RECURSIVE sorted_descending(_)
sorted_descending(vs) ==
    IF vs = <<>> THEN <<>>
    ELSE InsertDescending(Head(vs), sorted_descending(Tail(vs)))

\* lines 290-293: the first version below the current one
RECURSIVE first_below(_, _)
first_below(versions, current) ==
    IF versions = <<>> THEN None
    ELSE IF Head(versions) < current THEN Some(Head(versions))
    ELSE first_below(Tail(versions), current)

\* lines 286-288: the history list of the payload ([] when there is none)
history_of(d) ==
    IF IsNone(d) \/ ~Val(d).hasData THEN <<>> ELSE Val(d).history

\* line 289 raises KeyError or ValueError on a record without an integer
\* "spl_version"
history_raises(d) ==
    \E i \in 1..Len(history_of(d)) :
        ~history_of(d)[i].has \/ ~IsIntText(history_of(d)[i].text)

\* the value get_previous_version returns when it does not raise
get_previous_version(d, current) ==
    LET history == history_of(d)
        versions == sorted_descending(
                        [i \in 1..Len(history) |-> int(history[i].text)])
    IN  first_below(versions, current)

HistoryRecords ==
    {HistoryRecord(TRUE, ToString(v)) : v \in 1..MaxVer}
        \cup {HistoryRecord(TRUE, "x"), HistoryRecord(FALSE, "")}

HistoryResponses ==
    {None, Some(Payload(FALSE, <<>>))}
        \cup {Some(Payload(TRUE, h)) : h \in SeqUpTo(HistoryRecords, MaxHist)}

----------------------------------------------------------------------------
(* _extract_xml_from_spl_zip, _strip_html_to_text, parse_spl_sections *)

SPL_SECTION_CODES ==
    [code \in {"34067-9", "34068-7", "43685-7", "42232-9"} |->
        CASE code = "34067-9" -> "Warnings and Precautions"
          [] code = "34068-7" -> "Dosage and Administration"
          [] code = "43685-7" -> "Contraindications"
          [] code = "42232-9" -> "Indications and Usage"]

MaxSectionChars == 8000

\* An SPL text is "", text that does not parse, or a document: its
\* sections in document order.  A section has the code of its code child,
\* `ns` (it is matched by the hl7-qualified query) and the text content of
\* its first text descendant (None without one).
EmptyXml == [kind |-> "empty", sections |-> <<>>]
MalformedXml == [kind |-> "malformed", sections |-> <<>>]
Spl(sections) == [kind |-> "spl", sections |-> sections]
Section(code, ns, text) == [code |-> code, ns |-> ns, text |-> text]

\* re.sub(r"<[^>]+>", " ", s): a tag runs from "<" to the next ">" with at
\* least one character between
RECURSIVE strip_tags(_)
strip_tags(s) ==
    IF s = <<>> THEN <<>>
    ELSE LET closes == {j \in 2..Len(s) : s[j] = ">"}
             j == CHOOSE k \in closes : \A l \in closes : k <= l
         IN  IF Head(s) = "<" /\ closes /= {} /\ j >= 3
             THEN <<" ">> \o strip_tags(SubSeq(s, j + 1, Len(s)))
             ELSE <<Head(s)>> \o strip_tags(Tail(s))

\* re.sub(r"\s+", " ", s)
RECURSIVE collapse_whitespace(_)
collapse_whitespace(s) ==
    IF s = <<>> THEN <<>>
    ELSE IF Head(s) \in Whitespace
    THEN <<" ">> \o collapse_whitespace(LStrip(s))
    ELSE <<Head(s)>> \o collapse_whitespace(Tail(s))

_strip_html_to_text(html_fragment) ==
    IF html_fragment = <<>> THEN <<>>
    ELSE Strip(collapse_whitespace(strip_tags(html_fragment)))

\* lines 352-359: the sections carrying the code, by the qualified query,
\* else by local name
sections_with_code(doc, code) ==
    LET qualified == SelectSeq(doc.sections,
                               LAMBDA sec : sec.code = code /\ sec.ns)
    IN  IF qualified /= <<>> THEN qualified
        ELSE SelectSeq(doc.sections, LAMBDA sec : sec.code = code)

\* lines 360-372: the text of the first of the sections that has a text
\* element, None when none has
RECURSIVE first_section_text(_)
first_section_text(sections) ==
    IF sections = <<>> THEN None
    ELSE IF ~IsNone(Head(sections).text)
    THEN Some(Prefix(_strip_html_to_text(Val(Head(sections).text)),
                     MaxSectionChars))
    ELSE first_section_text(Tail(sections))

\* the dict returned: section name -> plain text
parse_spl_sections(xml_str) ==
    IF xml_str.kind /= "spl" THEN EmptyDict
    ELSE LET found == {code \in DOMAIN SPL_SECTION_CODES :
                          ~IsNone(first_section_text(
                                      sections_with_code(xml_str, code)))}
             codeOf(name) == CHOOSE code \in found :
                                 SPL_SECTION_CODES[code] = name
         IN  [name \in {SPL_SECTION_CODES[code] : code \in found} |->
                 Val(first_section_text(
                         sections_with_code(xml_str, codeOf(name))))]

\* A ZIP is no bytes at all, bytes that are no archive, or an archive: its
\* members in order.  Of a member's name the code reads whether it ends
\* with ".xml" and whether it contains "spl".
EmptyBytes == [kind |-> "empty", members |-> <<>>]
CorruptZip == [kind |-> "corrupt", members |-> <<>>]
Zip(members) == [kind |-> "zip", members |-> members]
Member(isXml, hasSpl, content) ==
    [isXml |-> isXml, hasSpl |-> hasSpl, content |-> content]

\* lines 322-328: the first member named *.xml with "spl" in its name,
\* else the first member named *.xml
_extract_xml_from_spl_zip(zip_bytes) ==
    IF zip_bytes.kind /= "zip" THEN None
    ELSE LET main == SelectSeq(zip_bytes.members,
                               LAMBDA m : m.isXml /\ m.hasSpl)
             anyXml == SelectSeq(zip_bytes.members, LAMBDA m : m.isXml)
         IN  IF main /= <<>> THEN Some(Head(main).content)
             ELSE IF anyXml /= <<>> THEN Some(Head(anyXml).content)
             ELSE None

\* inputs of the model
MaxSections == 2
MaxMembers == 2

DocSections ==
    { Section("34067-9", TRUE, Some(<<"a">>)),
      Section("34067-9", FALSE, Some(<<"<", "i", ">", "b", "\n">>)),
      Section("43685-7", TRUE, Some(<<>>)),
      Section("43685-7", TRUE, None),
      Section("00000-0", TRUE, Some(<<"a">>)) }

Documents ==
    {EmptyXml, MalformedXml}
        \cup {Spl(secs) : secs \in SeqUpTo(DocSections, MaxSections)}

XmlResponses == {None} \cup {Some(x) : x \in Documents}

ArchivedDocuments ==
    { EmptyXml, MalformedXml,
      Spl(<<Section("34067-9", TRUE, Some(<<"a">>))>>),
      Spl(<<Section("34067-9", FALSE, Some(<<"<", "i", ">", "b", "\n">>))>>),
      Spl(<<Section("43685-7", TRUE, Some(<<>>))>>) }

Members ==
    {Member(TRUE, TRUE, x) : x \in ArchivedDocuments}
        \cup {Member(TRUE, FALSE, x) : x \in ArchivedDocuments}
        \cup {Member(FALSE, FALSE, EmptyXml)}

ZipResponses ==
    {None, Some(EmptyBytes), Some(CorruptZip)}
        \cup {Some(Zip(ms)) : ms \in SeqUpTo(Members, MaxMembers)}

\* truth value of an optional text or bytes value
ContentTruthy(o) == ~IsNone(o) /\ Val(o).kind /= "empty"

----------------------------------------------------------------------------
(* _parse_unified_diff_to_added_removed, get_label_changes lines 417-458 *)

MaxDiffLines == 200
MaxListed == 30
MaxLineChars == 500
MaxSnippetChars == 1500

StartsWith(s, prefix) ==
    Len(s) >= Len(prefix) /\ SubSeq(s, 1, Len(prefix)) = prefix

\* str.splitlines(): the text is cut after each line break (a break at
\* the very end opens no further line); the cuts are made from the middle
\* outwards, which keeps the recursion shallow on long texts
RECURSIVE splitlines(_)
splitlines(s) ==
    IF s = <<>> THEN <<>>
    ELSE LET breaks == {i \in 1..(Len(s) - 1) : s[i] = "\n"}
             off(i) == (2 * i - Len(s)) * (2 * i - Len(s))
             mid == CHOOSE i \in breaks : \A k \in breaks : off(i) <= off(k)
         IN  IF breaks = {}
             THEN <<IF s[Len(s)] = "\n" THEN SubSeq(s, 1, Len(s) - 1) ELSE s>>
             ELSE splitlines(SubSeq(s, 1, mid))
                      \o splitlines(SubSeq(s, mid + 1, Len(s)))

\* the number of leading TRUEs of a sequence of truth values: the count of
\* rounds of a while loop whose test comes out as flags[1], flags[2], ...
CountWhile(flags) ==
    CHOOSE k \in 0..Len(flags) :
        /\ \A t \in 1..k : flags[t]
        /\ k = Len(flags) \/ ~flags[k + 1]

\* "\n".join(lines)
RECURSIVE join(_)
join(lines) ==
    IF lines = <<>> THEN <<>>
    ELSE IF Len(lines) = 1 THEN Head(lines)
    ELSE Head(lines) \o <<"\n">> \o join(Tail(lines))

\* SequenceMatcher's autojunk: when b has 200 lines or more, the lines that
\* occur in it more than len(b) // 100 + 1 times start no matching block
popular(b) ==
    IF Len(b) < 200 THEN {}
    ELSE {x \in Range(b) :
             Cardinality({j \in 1..Len(b) : b[j] = x}) > (Len(b) \div 100) + 1}

\* a[i] is paired with b[j] through b2j
Anchored(a, b, P, i, j) == b[j] \notin P /\ a[i] = b[j]

\* the length of the run of anchored pairs from <<i, j>> on
run_length(a, b, P, i, j, ahi, bhi) ==
    CountWhile([t \in 1..(Min(ahi - i, bhi - j) + 1) |->
                   Anchored(a, b, P, i + t - 1, j + t - 1)])

\* the maximal runs of anchored pairs within a[alo..ahi], b[blo..bhi]
CommonBlocks(a, b, P, alo, ahi, blo, bhi) ==
    {<<c[1], c[2], run_length(a, b, P, c[1], c[2], ahi, bhi)>> :
        c \in {d \in (alo..ahi) \X (blo..bhi) :
                  /\ Anchored(a, b, P, d[1], d[2])
                  /\ ~(/\ d[1] > alo
                       /\ d[2] > blo
                       /\ Anchored(a, b, P, d[1] - 1, d[2] - 1))}}

\* the number of equal lines just before <<i, j>>
extend_back(a, b, i, j, alo, blo) ==
    CountWhile([t \in 1..Min(i - alo, j - blo) |-> a[i - t] = b[j - t]])

\* the number of equal lines from <<i, j>> on
extend_forward(a, b, i, j, ahi, bhi) ==
    CountWhile([t \in 1..(Min(ahi - i, bhi - j) + 1) |->
                   a[i + t - 1] = b[j + t - 1]])

\* besti, bestj, bestsize after the first loop of find_longest_match: the
\* longest block, of those the first in a, of those the first in b, or an
\* empty block at <<alo, blo>>
best_block(blocks, alo, blo) ==
    IF blocks = {} THEN <<alo, blo, 0>>
    ELSE CHOOSE c \in blocks :
             \A d \in blocks :
                 \/ c[3] > d[3]
                 \/ c[3] = d[3] /\ c[1] < d[1]
                 \/ c[3] = d[3] /\ c[1] = d[1] /\ c[2] <= d[2]

\* a block widened by `back` lines before it and `forward` lines after it
widened(best, back, forward) ==
    <<best[1] - back, best[2] - back, best[3] + back + forward>>

\* the extension loops of find_longest_match applied to the block `best`
extended(a, b, best, alo, ahi, blo, bhi) ==
    widened(best,
            extend_back(a, b, best[1], best[2], alo, blo),
            extend_forward(a, b, best[1] + best[3], best[2] + best[3],
                           ahi, bhi))

\* SequenceMatcher.find_longest_match on a[alo..ahi], b[blo..bhi]: the
\* longest block of anchored pairs, of those the first in a, of those the
\* first in b (an empty block at <<alo, blo>> when there is none), extended
\* on both sides by the equal lines next to it
find_longest_match(a, b, P, alo, ahi, blo, bhi) ==
    extended(a, b, best_block(CommonBlocks(a, b, P, alo, ahi, blo, bhi),
                              alo, blo),
             alo, ahi, blo, bhi)

\* SequenceMatcher.get_matching_blocks: the pairs <<i, j>> of matched lines
RECURSIVE matching_lines(_, _, _, _, _, _, _)
RECURSIVE around_match(_, _, _, _, _, _, _, _)
matching_lines(a, b, P, alo, ahi, blo, bhi) ==
    IF alo > ahi \/ blo > bhi THEN {}
    ELSE around_match(a, b, P, find_longest_match(a, b, P, alo, ahi, blo, bhi),
                      alo, ahi, blo, bhi)

\* the pairs of the match m and of the ranges to its left and to its right
around_match(a, b, P, m, alo, ahi, blo, bhi) ==
    IF m[3] = 0 THEN {}
    ELSE {<<m[1] + t, m[2] + t>> : t \in 0..(m[3] - 1)}
             \cup matching_lines(a, b, P, alo, m[1] - 1, blo, m[2] - 1)
             \cup matching_lines(a, b, P, m[1] + m[3], ahi, m[2] + m[3], bhi)

\* the length of the run of matched pairs from <<i, j>> on
equal_run(a, b, i, j, matched) ==
    CountWhile([t \in 1..(Min(Len(a) - i, Len(b) - j) + 1) |->
                   <<i + t - 1, j + t - 1>> \in matched])

\* the first matched pair at or after <<i, j>>, the pair past both ends when
\* there is none
next_match(a, b, i, j, matched) ==
    LET ahead == {m \in matched : m[1] >= i /\ m[2] >= j}
    IN  IF ahead = {} THEN <<Len(a) + 1, Len(b) + 1>>
        ELSE CHOOSE m \in ahead : \A k \in ahead : m[1] <= k[1]

\* the hunks of unified_diff(a, b, lineterm="", n=0) from lines i of a and
\* j of b on: per run of unmatched lines a "@@" line, the lines of a with
\* "-" in front, the lines of b with "+" in front
RECURSIVE diff_hunks(_, _, _, _, _)
RECURSIVE after_equal(_, _, _, _, _, _)
RECURSIVE hunk_to(_, _, _, _, _, _)
diff_hunks(a, b, i, j, matched) ==
    IF i > Len(a) /\ j > Len(b) THEN <<>>
    ELSE IF <<i, j>> \in matched
    THEN after_equal(a, b, i, j, matched, equal_run(a, b, i, j, matched))
    ELSE hunk_to(a, b, i, j, matched, next_match(a, b, i, j, matched))

\* the hunks after a run of `equal` matched lines
after_equal(a, b, i, j, matched, equal) ==
    diff_hunks(a, b, i + equal, j + equal, matched)

\* the hunk of the unmatched lines before the pair nxt, and the hunks after
hunk_to(a, b, i, j, matched, nxt) ==
    <<<<"@", "@">>>>
        \o [k \in 1..(nxt[1] - i) |-> <<"-">> \o a[i + k - 1]]
        \o [k \in 1..(nxt[2] - j) |-> <<"+">> \o b[j + k - 1]]
        \o diff_hunks(a, b, nxt[1], nxt[2], matched)

\* the "---" and "+++" lines unified_diff puts before the first hunk
with_file_lines(hunks) ==
    IF hunks = <<>> THEN <<>>
    ELSE << <<"-", "-", "-", " ">>, <<"+", "+", "+", " ">> >> \o hunks

\* list(difflib.unified_diff(old_lines, new_lines, lineterm="", n=0))
unified_diff(a, b) ==
    with_file_lines(diff_hunks(a, b, 1, 1,
                               matching_lines(a, b, popular(b),
                                              1, Len(a), 1, Len(b))))

\* lines 386-393: the loop over the lines of the diff
added_removed(diff) ==
    LET isAdded(line) == StartsWith(line, <<"+">>)
                             /\ ~StartsWith(line, <<"+", "+", "+">>)
        isRemoved(line) == ~isAdded(line)
                             /\ StartsWith(line, <<"-">>)
                             /\ ~StartsWith(line, <<"-", "-", "-">>)
        content(lines) == [k \in 1..Len(lines) |-> Strip(Tail(lines[k]))]
    IN  [added   |-> content(SelectSeq(diff, isAdded)),
         removed |-> content(SelectSeq(diff, isRemoved))]

\* lines 378-393: [added, removed]
_parse_unified_diff_to_added_removed(old, new) ==
    added_removed(unified_diff(old, new))

\* the terminal summaries
NoPreviousSummary == <<"No previous version available for comparison.">>

NoContentSummary ==
    <<"Could not retrieve label content for comparison (API may be temporarily unavailable).">>

NoChangesSummary ==
    <<"No text changes detected in key sections (Warnings, Dosage, etc.).">>

\* the lines of the report
AddedNote == <<" ", " ", "Added in this version.">>
RemovedNote == <<" ", " ", "Removed in this version.">>
RemovedHeader == <<" ", " ", "**Removed:**">>
AddedHeader == <<" ", " ", "**Added:**">>
ReflowNote ==
    <<" ", " ", "(Content reflow or minor edits; no clear added/removed lines.)">>
Item(line) == <<" ", " ", "-", " ">> \o Prefix(line, MaxLineChars)
More(n) == <<" ", " ", "-", " ", "...", " ", "and", " ", ToString(n), " ",
             "more line(s)">>

\* lines 443-446, 450-453 as a slip that forgets the cap would have them
listed_all(entries) == [k \in 1..Len(entries) |-> Item(entries[k])]

\* lines 443-446, 450-453: at most MaxListed entries, then the count of
\* the rest
listed(entries) ==
    [k \in 1..Min(Len(entries), MaxListed) |-> Item(entries[k])]
        \o (IF Len(entries) > MaxListed
            THEN <<More(Len(entries) - MaxListed)>> ELSE <<>>)

\* the text of a section as a slip that omits .strip() would have it
section_text_untrimmed(sections, name) ==
    IF name \in DOMAIN sections THEN sections[name] ELSE <<>>

\* (sections.get(name) or "").strip()
section_text(sections, name) ==
    Strip(IF name \in DOMAIN sections THEN sections[name] ELSE <<>>)

\* new_text[:1500].replace("\n", " "), "..." when cut
snippet_of(new_text) ==
    [k \in 1..Min(Len(new_text), MaxSnippetChars) |->
        IF new_text[k] = "\n" THEN " " ELSE new_text[k]]
        \o (IF Len(new_text) > MaxSnippetChars THEN <<"...">> ELSE <<>>)

\* lines 441-456: the lines written from [added, removed]
diff_report(d) ==
    (IF d.removed /= <<>>
     THEN <<RemovedHeader>> \o listed(d.removed) \o <<<<>>>>
     ELSE <<>>)
        \o (IF d.added /= <<>>
            THEN <<AddedHeader>> \o listed(d.added)
            ELSE <<>>)
        \o (IF d.added = <<>> /\ d.removed = <<>>
            THEN <<ReflowNote>> ELSE <<>>)

\* lines 425-457: the lines appended for a section of the two texts
text_lines(name, old_text, new_text) ==
    IF old_text = new_text THEN <<>>
    ELSE <<<<name>>>>
         \o (IF old_text = <<>>
             THEN <<AddedNote, <<" ", " ">> \o snippet_of(new_text)>>
             ELSE IF new_text = <<>>
             THEN <<RemovedNote>>
             ELSE diff_report(_parse_unified_diff_to_added_removed(
                                  Prefix(splitlines(old_text), MaxDiffLines),
                                  Prefix(splitlines(new_text), MaxDiffLines))))
         \o <<<<>>>>

\* lines 423-457: the lines one section appends
section_lines(name, old, current) ==
    text_lines(name, section_text(old, name), section_text(current, name))

\* sorted() of the section names
SortedNames ==
    <<"Contraindications", "Dosage and Administration",
      "Indications and Usage", "Warnings and Precautions">>

\* line 421
all_names(old, current) ==
    SelectSeq(SortedNames,
              LAMBDA n : n \in (DOMAIN current \cup DOMAIN old))

\* lines 420-456: `lines` after the sections named
RECURSIVE report_lines(_, _, _)
report_lines(names, old, current) ==
    IF names = <<>> THEN <<>>
    ELSE section_lines(Head(names), old, current)
             \o report_lines(Tail(names), old, current)

\* line 417, as a slip that writes `or` would have it
no_content_in_either(current, old) == DOMAIN current = {} \/ DOMAIN old = {}

\* line 417: not current_sections and not old_sections
no_content(current, old) == DOMAIN current = {} /\ DOMAIN old = {}

\* line 458
summary_of(lines) ==
    IF lines /= <<>> THEN Strip(join(lines)) ELSE NoChangesSummary

\* lines 417-458: the summary returned once both versions were read
summarize(current, old) ==
    IF no_content(current, old) THEN NoContentSummary
    ELSE summary_of(report_lines(all_names(old, current), old, current))

InitChanges ==
    /\ op = "get_label_changes"
    /\ pc = "call"
    /\ current_version \in 1..MaxVer
    /\ calls = <<>>
    /\ data = None
    /\ prev_version = None
    /\ current_xml = None
    /\ current_sections = EmptyDict
    /\ old_sections = EmptyDict
    /\ summary = <<>>
    /\ IdleFilters
    /\ IdleValidate
    /\ IdleDiff
    /\ IdleSession

\* line 406, lines 283-293: the history is fetched and the previous
\* version resolved; a malformed record makes the call raise
GetPreviousVersion ==
    /\ op = "get_label_changes"
    /\ pc = "call"
    /\ \E d \in HistoryResponses :
         /\ data' = d
         /\ IF history_raises(d)
            THEN pc' = "raised" /\ prev_version' = None
            ELSE /\ pc' = "resolved"
                 /\ prev_version' = get_previous_version(d, current_version)
    /\ calls' = Append(calls, "fetch_spl_history")
    /\ UNCHANGED <<op, current_version, current_xml, current_sections,
                   old_sections, summary, filter_vars, validate_vars,
                   diff_vars, session_vars>>

\* the test of line 407, as a slip that never takes it would have it
no_previous_never(prev) == FALSE

\* line 407: there is no previous version to compare with
no_previous(prev) == IsNone(prev)

\* lines 407-408
ReturnNoPrevious ==
    /\ op = "get_label_changes"
    /\ pc = "resolved"
    /\ no_previous(prev_version)
    /\ summary' = NoPreviousSummary
    /\ data' = None
    /\ pc' = "return"
    /\ UNCHANGED <<op, current_version, calls, prev_version, current_xml,
                   current_sections, old_sections, filter_vars, validate_vars,
                   diff_vars, session_vars>>

\* lines 410-411
FetchCurrent ==
    /\ op = "get_label_changes"
    /\ pc = "resolved"
    /\ ~no_previous(prev_version)
    /\ \E xml \in XmlResponses :
         /\ current_xml' = xml
         /\ IF ContentTruthy(xml)
            THEN /\ current_sections' = parse_spl_sections(Val(xml))
                 /\ calls' = calls \o <<"fetch_spl_xml", "parse_spl_sections">>
            ELSE /\ current_sections' = EmptyDict
                 /\ calls' = calls \o <<"fetch_spl_xml">>
    /\ data' = None
    /\ pc' = "current"
    /\ UNCHANGED <<op, current_version, prev_version, old_sections, summary,
                   filter_vars, validate_vars, diff_vars, session_vars>>

\* lines 413-415
FetchPrevious ==
    /\ op = "get_label_changes"
    /\ pc = "current"
    /\ \E zip_bytes \in ZipResponses :
         LET old_xml == IF ContentTruthy(zip_bytes)
                        THEN _extract_xml_from_spl_zip(Val(zip_bytes))
                        ELSE None
         IN  /\ old_sections' = IF ContentTruthy(old_xml)
                                THEN parse_spl_sections(Val(old_xml))
                                ELSE EmptyDict
             /\ calls' = calls \o <<"fetch_spl_zip">>
                    \o (IF ContentTruthy(zip_bytes)
                        THEN <<"_extract_xml_from_spl_zip">> ELSE <<>>)
                    \o (IF ContentTruthy(old_xml)
                        THEN <<"parse_spl_sections">> ELSE <<>>)
    /\ pc' = "previous"
    /\ UNCHANGED <<op, current_version, data, prev_version, current_xml,
                   current_sections, summary, filter_vars, validate_vars, diff_vars,
                   session_vars>>

\* lines 417-458
Summarize ==
    /\ op = "get_label_changes"
    /\ pc = "previous"
    /\ summary' = summarize(current_sections, old_sections)
    /\ pc' = "return"
    /\ UNCHANGED <<op, current_version, calls, data, prev_version,
                   current_xml, current_sections, old_sections, filter_vars,
                   validate_vars, diff_vars, session_vars>>

NextChanges ==
    \/ GetPreviousVersion
    \/ ReturnNoPrevious
    \/ FetchCurrent
    \/ FetchPrevious
    \/ Summarize

SpecChanges == InitChanges /\ [][NextChanges]_vars

\* the versions the fetched history holds
HistoryVersions ==
    {int(history_of(data)[i].text) : i \in 1..Len(history_of(data))}

VersionsBelow == {v \in HistoryVersions : v < current_version}

Resolved == op = "get_label_changes" /\ pc = "resolved"

\* C2: get_previous_version returns the largest version of the fetched
\* history that is strictly below current_version, whatever the order and
\* the gaps of the history, and None when the history is unavailable or
\* empty or holds no version below current_version.
C2_ClosestPreviousVersion ==
    Resolved =>
        IF VersionsBelow = {}
        THEN IsNone(prev_version)
        ELSE /\ ~IsNone(prev_version)
             /\ Val(prev_version) \in VersionsBelow
             /\ \A v \in VersionsBelow : v <= Val(prev_version)

\* an unordered history with a gap just below the current version
C2_Witness ==
    /\ Resolved
    /\ current_version = 3
    /\ HistoryVersions = {1, 3}
    /\ int(history_of(data)[1].text) = 1
    /\ prev_version = Some(1)

ChangesReturned == op = "get_label_changes" /\ pc = "return"

DocumentCalls ==
    {"fetch_spl_xml", "fetch_spl_zip", "_extract_xml_from_spl_zip",
     "parse_spl_sections"}

\* C3: the history lookup comes before any document retrieval; with no
\* previous version the function returns exactly the "No previous version
\* available for comparison." sentinel and never calls fetch_spl_xml,
\* fetch_spl_zip, the archive extraction or the section parser, which are
\* called only on runs that resolved a previous version.
C3_NoFetchWithoutPrevious ==
    op = "get_label_changes" =>
        /\ \A i \in 1..Len(calls) :
              calls[i] \in DocumentCalls =>
                  /\ i > 1
                  /\ calls[1] = "fetch_spl_history"
                  /\ ~IsNone(prev_version)
        /\ (pc = "return" /\ IsNone(prev_version)) =>
              /\ summary = NoPreviousSummary
              /\ calls = <<"fetch_spl_history">>

\* a run that found no previous version and returned
C3_Witness ==
    /\ ChangesReturned
    /\ IsNone(prev_version)
    /\ summary = NoPreviousSummary
    /\ calls = <<"fetch_spl_history">>

SectionNames == {SPL_SECTION_CODES[code] : code \in DOMAIN SPL_SECTION_CODES}

SummaryLines == splitlines(summary)

\* the report names the section and the next line is `note`
Reports(name, note) ==
    LET lines == SummaryLines
    IN  \E i \in 1..(Len(lines) - 1) :
            lines[i] = <<name>> /\ lines[i + 1] = note

\* the dict without the key
Without(sections, name) ==
    [n \in DOMAIN sections \ {name} |-> sections[n]]

PresentButEmpty(sections, name) ==
    name \in DOMAIN sections /\ sections[name] = <<>>

\* C9: a section absent from the previous map and present in the current
\* one is reported as "Added in this version", one present in the previous
\* and absent from the current as "Removed in this version", also when the
\* text of the present key is empty; so "absent in both" and "absent in
\* one, present but empty in the other" give different summaries.
C9_AbsenceGovernsMessaging ==
    (ChangesReturned /\ ~IsNone(prev_version)) =>
        \A name \in SectionNames :
            /\ (name \notin DOMAIN old_sections
                    /\ name \in DOMAIN current_sections)
                   => Reports(name, AddedNote)
            /\ (name \in DOMAIN old_sections
                    /\ name \notin DOMAIN current_sections)
                   => Reports(name, RemovedNote)
            /\ (name \notin DOMAIN old_sections
                    /\ PresentButEmpty(current_sections, name))
                   => summary /= summarize(Without(current_sections, name),
                                           old_sections)
            /\ (name \notin DOMAIN current_sections
                    /\ PresentButEmpty(old_sections, name))
                   => summary /= summarize(current_sections,
                                           Without(old_sections, name))

\* the trimmed text a version holds for a section ("" without the key)
TrimmedText(sections, name) ==
    Strip(IF name \in DOMAIN sections THEN sections[name] ELSE <<>>)

Differing ==
    {name \in DOMAIN current_sections \cup DOMAIN old_sections :
        TrimmedText(old_sections, name) /= TrimmedText(current_sections, name)}

\* the sections the report has a heading for
Headings ==
    LET lines == Range(SummaryLines)
    IN  {name \in SectionNames : <<name>> \in lines}

Sentinels == {NoPreviousSummary, NoContentSummary, NoChangesSummary}

BothEmpty == DOMAIN current_sections = {} /\ DOMAIN old_sections = {}

\* C10: the result is exactly one of four cases, in this order: the "no
\* previous version" sentinel iff no previous version was resolved; else
\* the "could not retrieve" sentinel iff both section maps are empty; else
\* the "no text changes" sentinel iff every section of either map has equal
\* trimmed text in both versions; otherwise a non-empty report with a
\* heading for each differing section and for no other.
C10_FourCases ==
    ChangesReturned =>
        /\ summary = NoPreviousSummary <=> IsNone(prev_version)
        /\ ~IsNone(prev_version) =>
              (summary = NoContentSummary <=> BothEmpty)
        /\ (~IsNone(prev_version) /\ ~BothEmpty) =>
              (summary = NoChangesSummary <=> Differing = {})
        /\ (~IsNone(prev_version) /\ ~BothEmpty /\ Differing /= {}) =>
              /\ summary /= <<>>
              /\ summary \notin Sentinels
              /\ Headings = Differing

\* a report on one changed section beside an unchanged one
C10_Witness ==
    /\ ChangesReturned
    /\ summary \notin Sentinels
    /\ Headings = {"Warnings and Precautions"}
    /\ "Contraindications" \in DOMAIN current_sections
    /\ Len(calls) = 6

\* C11: get_label_changes never raises and always returns a summary
\* string, whatever its collaborators answer: history request failed,
\* history records without a version field or with a non-integer version,
\* current document absent, archive absent or corrupt, markup malformed.
C11_NeverRaises ==
    op = "get_label_changes" =>
        /\ pc /= "raised"
        /\ pc = "return" => summary /= <<>>

----------------------------------------------------------------------------
(* _parse_unified_diff_to_added_removed and lines 417-458 of                *)
(* get_label_changes as functions of their inputs: the line lists, and the  *)
(* two section maps once both versions were read                            *)

MaxLines == 2

\* lines of the diffed texts: plain, with surrounding blanks, and with
\* "+" or "-" in front
DiffLines ==
    { <<"a">>, <<"b">>, <<" ", "a">>, <<"-", "a">>,
      <<"-", "-", "a">>, <<"+", "+", "b">> }

\* the decimal digits of k, three of them
Digits(k) ==
    <<ToString((k \div 100) % 10), ToString((k \div 10) % 10),
      ToString(k % 10)>>

\* line lists as long as get_label_changes passes at most: one line
\* repeated, and all lines distinct
LongLists ==
    { [k \in 1..MaxDiffLines |-> <<"a">>],
      [k \in 1..MaxDiffLines |-> Digits(k)] }

LineLists == SeqUpTo(DiffLines, MaxLines) \cup LongLists

InitDiff ==
    /\ op = "_parse_unified_diff_to_added_removed"
    /\ pc = "call"
    /\ old_lines \in LineLists
    /\ new_lines \in LineLists
    /\ added = <<>>
    /\ removed = <<>>
    /\ IdleFilters
    /\ IdleValidate
    /\ IdleChanges
    /\ IdleSession

\* lines 378-393
ParseDiff ==
    /\ op = "_parse_unified_diff_to_added_removed"
    /\ pc = "call"
    /\ LET d == _parse_unified_diff_to_added_removed(old_lines, new_lines)
       IN  added' = d.added /\ removed' = d.removed
    /\ pc' = "return"
    /\ UNCHANGED <<op, old_lines, new_lines, filter_vars, validate_vars,
                   changes_vars, session_vars>>

\* a text of n lines, line k being the number k
Numbered(n) ==
    [p \in 1..(4 * n - 1) |->
        IF p % 4 = 0 THEN "\n" ELSE Digits(((p - 1) \div 4) + 1)[p % 4]]

\* a text of one line of n characters
LongLine(n) == [p \in 1..n |-> "a"]

\* section texts: short ones, and ones at and just over each limit
SectionTexts ==
    { <<>>, <<"a">>, <<" ", "a", "\n">>, <<"b", "\n", "a">>,
      Numbered(MaxListed), Numbered(MaxListed + 1),
      Numbered(MaxDiffLines), Numbered(MaxDiffLines + 1),
      LongLine(MaxLineChars), LongLine(MaxLineChars + 1) }

\* what a section map holds for a name: nothing, or a text
SectionEntries == {None} \cup {Some(t) : t \in SectionTexts}

\* the section map with the given entries
SectionMap(warnings, contraindications) ==
    [name \in {n \in {"Warnings and Precautions", "Contraindications"} :
                  ~IsNone(IF n = "Contraindications"
                          THEN contraindications ELSE warnings)} |->
        IF name = "Contraindications"
        THEN Val(contraindications) ELSE Val(warnings)]

\* a second section: in neither version, unchanged, or changed
SecondSections ==
    { <<None, None>>, <<Some(<<"a">>), Some(<<"a">>)>>,
      <<Some(<<"a">>), Some(<<"b">>)>> }

\* line 417 is reached with a previous version resolved and both versions
\* read; the two maps are the inputs, the documents they were read from
\* are left out
InitSummary ==
    /\ op = "get_label_changes"
    /\ pc = "previous"
    /\ current_version = 2
    /\ prev_version = Some(1)
    /\ data = None
    /\ current_xml = None
    /\ calls = <<"fetch_spl_history", "fetch_spl_xml", "parse_spl_sections",
                 "fetch_spl_zip", "_extract_xml_from_spl_zip",
                 "parse_spl_sections">>
    /\ \E old \in SectionEntries, new \in SectionEntries,
            second \in SecondSections :
          /\ old_sections = SectionMap(old, second[1])
          /\ current_sections = SectionMap(new, second[2])
    /\ summary = <<>>
    /\ IdleFilters
    /\ IdleValidate
    /\ IdleDiff
    /\ IdleSession

NextDiff == ParseDiff \/ Summarize

SpecDiff == (InitDiff \/ InitSummary) /\ [][NextDiff]_vars

DiffReturned == op = "_parse_unified_diff_to_added_removed" /\ pc = "return"

\* the summary of the two maps without the section: the "no text changes"
\* sentinel when no other section is left in either
SummaryWithout(name) ==
    LET current == Without(current_sections, name)
        old == Without(old_sections, name)
    IN  IF DOMAIN current = {} /\ DOMAIN old = {} THEN NoChangesSummary
        ELSE summarize(current, old)

\* C12: for identical old and new line lists the diff parser returns no
\* added and no removed line, and a section whose text is equal in both
\* versions after trimming surrounding whitespace never appears in the
\* summary: it has no heading and the summary is the one the other
\* sections give without it.
C12_IdenticalTextsOmitted ==
    /\ (DiffReturned /\ old_lines = new_lines) =>
           (added = <<>> /\ removed = <<>>)
    /\ ChangesReturned =>
           \A name \in DOMAIN current_sections \cap DOMAIN old_sections :
               Strip(old_sections[name]) = Strip(current_sections[name]) =>
                   /\ name \notin Headings
                   /\ summary = SummaryWithout(name)

\* a section equal only after trimming, beside a changed one
C12_Witness ==
    /\ ChangesReturned
    /\ "Warnings and Precautions"
           \in DOMAIN current_sections \cap DOMAIN old_sections
    /\ old_sections["Warnings and Precautions"]
           /= current_sections["Warnings and Precautions"]
    /\ Strip(old_sections["Warnings and Precautions"])
           = Strip(current_sections["Warnings and Precautions"])
    /\ Headings = {"Contraindications"}

\* the lines of `lines` at the positions the diff left unmatched, trimmed
Unmatched(lines, positions) ==
    LET at == SelectSeq([k \in 1..Len(lines) |-> k],
                        LAMBDA k : k \notin positions)
    IN  [k \in 1..Len(at) |-> Strip(lines[at[k]])]

\* C13: `added` holds every line the zero-context diff marks as inserted
\* and `removed` every line it marks as deleted, in diff order and trimmed,
\* and nothing else: no differing line is omitted, also when its own text
\* begins with "+" or "-", and no header line of the diff is reported.
C13_EveryDifferingLine ==
    DiffReturned =>
        LET matched == matching_lines(old_lines, new_lines,
                                      popular(new_lines),
                                      1, Len(old_lines), 1, Len(new_lines))
        IN  /\ removed = Unmatched(old_lines, {m[1] : m \in matched})
            /\ added = Unmatched(new_lines, {m[2] : m \in matched})

\* one text per record: the caller's own as far as they go, then ""
OnePerRecord ==
    [i \in 1..Len(matches) |->
        IF i <= Len(Val(change_texts)) THEN Val(change_texts)[i] ELSE <<>>]

\* no stage of the call runs
NoCriterion ==
    ~DatePresent /\ ~ClassPresent /\ ~KeywordPresent /\ ~ManufacturerPresent

\* C14: a change_texts list whose length differs from the number of
\* records does not make apply_filters fail: a shorter list is padded at
\* the end with empty strings, a longer one is truncated, so the stages
\* start from one text per record with the caller's own pairings first,
\* and the call returns what it returns for that list of equal length.
C14_PadsAndTruncates ==
    (Returned /\ TextsGiven /\ ~EqualLengths) =>
        /\ NoCriterion => (result = matches /\ texts = Some(OnePerRecord))
        /\ LET r == apply_filters(matches, date_start, date_end,
                                  drug_class_code, drug_class_setids,
                                  keyword, manufacturer, Some(OnePerRecord),
                                  class_pages)
           IN  result = r.result /\ texts = r.texts

\* a longer list cut to the one record, which a stage retains
C14_Witness ==
    /\ Returned /\ TextsGiven /\ KeywordPresent
    /\ Len(matches) = 1
    /\ Len(Val(change_texts)) = 2
    /\ result = matches
    /\ texts = Some(<<TextOf(1)>>)

\* the lines of the summary under the heading of the section, up to the
\* next heading
BlockOf(name) ==
    LET lines == SummaryLines
        h == CHOOSE i \in 1..Len(lines) : lines[i] = <<name>>
        later == {i \in (h + 1)..Len(lines) :
                     \E n \in SectionNames : lines[i] = <<n>>}
        next == CHOOSE i \in later : \A k \in later : i <= k
    IN  SubSeq(lines, h + 1, IF later = {} THEN Len(lines) ELSE next - 1)

ItemPrefix == <<" ", " ", "-", " ">>

PositionOf(block, line) == CHOOSE i \in 1..Len(block) : block[i] = line

\* the list lines that follow the header in the block
Listing(block, header) ==
    IF header \notin Range(block) THEN <<>>
    ELSE LET x == PositionOf(block, header)
             n == CountWhile([t \in 1..(Len(block) - x) |->
                                 StartsWith(block[x + t], ItemPrefix)])
         IN  SubSeq(block, x + 1, x + n)

\* the listing shows the first 30 entries, each cut to 500 characters, and
\* then one "and N more" line exactly when there are more than 30
Capped(shown, entries) ==
    LET n == IF Len(entries) <= 30 THEN Len(entries) ELSE 30
    IN  /\ Len(shown) = IF Len(entries) > 30 THEN n + 1 ELSE n
        /\ \A k \in 1..n :
              /\ shown[k] = ItemPrefix \o Prefix(entries[k], 500)
              /\ Len(shown[k]) <= 4 + 500
        /\ Len(entries) > 30 => shown[n + 1] = More(Len(entries) - 30)

\* C15: for a section whose old and new texts are both non-empty and
\* differ, the removed lines are listed before the added lines; each list
\* shows at most 30 entries, each cut to 500 characters, followed by one
\* "and N more" line with N = length - 30 exactly when the list has more
\* than 30 entries; the lists are those of the diff of the first 200
\* lines of each text.
C15_ListsCapped ==
    ChangesReturned =>
        \A name \in DOMAIN current_sections \cap DOMAIN old_sections :
            LET old_text == Strip(old_sections[name])
                new_text == Strip(current_sections[name])
                d == _parse_unified_diff_to_added_removed(
                         Prefix(splitlines(old_text), 200),
                         Prefix(splitlines(new_text), 200))
                block == BlockOf(name)
            IN  (old_text /= <<>> /\ new_text /= <<>> /\ old_text /= new_text)
                    =>
                    /\ name \in Headings
                    /\ RemovedHeader \in Range(block) <=> d.removed /= <<>>
                    /\ AddedHeader \in Range(block) <=> d.added /= <<>>
                    /\ (d.removed /= <<>> /\ d.added /= <<>>) =>
                           PositionOf(block, RemovedHeader)
                               < PositionOf(block, AddedHeader)
                    /\ Capped(Listing(block, RemovedHeader), d.removed)
                    /\ Capped(Listing(block, AddedHeader), d.added)

\* 201 old lines against one new line of 501 characters: 200 removed lines
\* of which 30 are shown, the added line shown cut
C15_Witness ==
    /\ ChangesReturned
    /\ "Warnings and Precautions"
           \in DOMAIN current_sections \cap DOMAIN old_sections
    /\ Len(splitlines(old_sections["Warnings and Precautions"])) = 201
    /\ Len(current_sections["Warnings and Precautions"]) = 501
    /\ More(170) \in Range(SummaryLines)
    /\ (ItemPrefix \o LongLine(500)) \in Range(SummaryLines)
    /\ Len(Listing(BlockOf("Warnings and Precautions"), RemovedHeader)) = 31

\* the current document was fetched and handed to parse_spl_sections
CurrentParsed ==
    /\ op = "get_label_changes"
    /\ pc \in {"current", "previous", "return"}
    /\ ContentTruthy(current_xml)

\* the sections of the document that carry the code, in document order
SameCoded(doc, code) == SelectSeq(doc.sections, LAMBDA sec : sec.code = code)

\* C16: parse_spl_sections maps a section name to the extracted text of
\* the first section of the document, in document order, that carries its
\* code, and no later section with the same code contributes; the name is
\* absent when no section carries the code; malformed input gives an empty
\* mapping.
C16_FirstSectionOnly ==
    CurrentParsed =>
        LET doc == Val(current_xml)
        IN  IF doc.kind /= "spl" THEN current_sections = EmptyDict
            ELSE \A code \in DOMAIN SPL_SECTION_CODES :
                     LET name == SPL_SECTION_CODES[code]
                         same == SameCoded(doc, code)
                     IN  IF same = <<>> \/ IsNone(Head(same).text)
                         THEN name \notin DOMAIN current_sections
                         ELSE /\ name \in DOMAIN current_sections
                              /\ current_sections[name]
                                    = Prefix(_strip_html_to_text(
                                                 Val(Head(same).text)), 8000)

----------------------------------------------------------------------------
(* dashboard.py: the "Generate report" handler and the report display *)

MaxAttempts == 3

\* the steps of the handler that can raise, in order: report generation,
\* filtering, FDA cross-validation, markdown rendering, PDF rendering
HandlerSteps == <<"generate_report", "apply_filters",
                  "fetch_fda_validation_for_matches",
                  "build_impact_report_md", "build_pdf">>

\* the values an attempt builds: they are told apart by the attempt
Markdown(k) == [kind |-> "markdown", attempt |-> k]
PdfBytes(k) == [kind |-> "pdf", attempt |-> k]

\* the dict with key set to value
Assign(state, key, value) ==
    [k \in DOMAIN state \cup {key} |-> IF k = key THEN value ELSE state[k]]

\* lines 159-161: the attempt's markdown, match count and PDF are stored
on_success(state, k, n) ==
    Assign(Assign(Assign(state, "report_md", Markdown(k)),
                  "report_matches", n),
           "report_pdf", PdfBytes(k))

\* the except branch as a slip that forgets the cleanup would have it
on_failure_unchanged(state) == state

\* lines 162-167: the except branch deletes the markdown and the PDF
on_failure(state) == Without(Without(state, "report_md"), "report_pdf")

InitDashboard ==
    /\ op = "dashboard"
    /\ pc = "rendered"
    /\ session_state = EmptyDict
    /\ attempts = <<>>
    /\ IdleFilters
    /\ IdleValidate
    /\ IdleChanges
    /\ IdleDiff

\* lines 111-167: one click on "Generate report"; the run raises at one of
\* its steps or completes with n filtered matches
GenerateReport ==
    /\ op = "dashboard"
    /\ Len(attempts) < MaxAttempts
    /\ \E failed \in {None} \cup {Some(HandlerSteps[i]) :
                                      i \in 1..Len(HandlerSteps)},
            n \in 0..MaxLen :
          /\ attempts' = Append(attempts, [failed |-> failed, matches |-> n])
          /\ session_state' =
                 IF IsNone(failed)
                 THEN on_success(session_state, Len(attempts) + 1, n)
                 ELSE on_failure(session_state)
    /\ UNCHANGED <<op, pc, filter_vars, validate_vars, changes_vars,
                   diff_vars>>

NextDashboard == GenerateReport

SpecDashboard == InitDashboard /\ [][NextDashboard]_vars

\* lines 169-207: what the page shows after the handler
ReportShown == "report_md" \in DOMAIN session_state

\* line 170: st.session_state.get("report_matches", 0)
ShownMatches ==
    IF "report_matches" \in DOMAIN session_state
    THEN session_state["report_matches"] ELSE 0

\* line 189: st.session_state.get("report_pdf", b"")
OfferedPdf ==
    IF "report_pdf" \in DOMAIN session_state
    THEN Some(session_state["report_pdf"]) ELSE None

LastFailed ==
    attempts /= <<>> /\ ~IsNone(attempts[Len(attempts)].failed)

\* C17: after any sequence of "Generate report" attempts the session
\* state holds the report markdown iff it holds the report PDF; when held,
\* both are those of the most recent attempt, which succeeded, and the
\* match count is that attempt's; after a failed attempt neither is held,
\* so no report of an earlier run is displayed or offered for download.
C17_ReportFromLastSuccess ==
    op = "dashboard" =>
        /\ ReportShown <=> "report_pdf" \in DOMAIN session_state
        /\ LastFailed => (~ReportShown /\ IsNone(OfferedPdf))
        /\ ReportShown =>
              /\ IsNone(attempts[Len(attempts)].failed)
              /\ session_state["report_md"] = Markdown(Len(attempts))
              /\ OfferedPdf = Some(PdfBytes(Len(attempts)))
              /\ ShownMatches = attempts[Len(attempts)].matches

\* a successful attempt followed by one that failed while rendering the PDF
C17_Witness ==
    /\ op = "dashboard"
    /\ Len(attempts) = 2
    /\ IsNone(attempts[1].failed)
    /\ attempts[2].failed = Some("build_pdf")
    /\ "report_matches" \in DOMAIN session_state
    /\ ~ReportShown

----------------------------------------------------------------------------
(* all of them together *)

Init ==
    InitFilters \/ InitValidate \/ InitChanges \/ InitDiff \/ InitSummary
        \/ InitDashboard

Next == NextFilters \/ NextValidate \/ NextChanges \/ NextDiff \/ NextDashboard

Spec == Init /\ [][Next]_vars

====
